---- MODULE Spec2Model ----
(***************************************************************************)
(* Model of hotels/amadeus_client.py: the AmadeusClient object, its token  *)
(* cache, the retry loops of _get and _post_form, and the chunked fetch of *)
(* get_hotel_offers.  The transport (requests.Session) is the environment: *)
(* every invocation answers with a status, an optional Retry-After header  *)
(* and a body chosen nondeterministically.                                 *)
(***************************************************************************)
EXTENDS Integers, Sequences, FiniteSets, TLC

\* ---------------------------------------------------------------- bounds
MaxLen == 41            \* longest hotel id list passed to get_hotel_offers
MaxHdrLen == 1          \* longest Retry-After header value, in characters

\* ------------------------------------------------------ program constants
MAX_RETRIES == 3
RETRY_BACKOFF == 2
ChunkSize == 20

\* ------------------------------------------------------------ value sets
None == "None"
Tokens == {"tokA", "tokB"}
\* what data.get("access_token") can yield on a 2xx auth response
TokenFields == {None, ""} \cup Tokens
Statuses == {200, 401, 404, 429, 500}
Payloads == {"no_offers", "offers"}
HdrChars == {"5", "x"}
IdPeriod == 7

RECURSIVE StringsUpTo(_)
StringsUpTo(n) ==
    IF n = 0 THEN {<<>>}
    ELSE LET shorter == StringsUpTo(n - 1)
         IN  shorter \cup {Append(s, c) : s \in shorter, c \in HdrChars}

\* resp.headers.get("Retry-After"): absent (None) or a string
NoHeader == [present |-> FALSE, value |-> <<>>]
RetryAfterValues ==
    {NoHeader} \cup {[present |-> TRUE, value |-> s] : s \in StringsUpTo(MaxHdrLen)}

\* the id lists a caller passes: all ids distinct, or ids repeating
HotelIdAt(pattern, i) == IF pattern = "distinct" THEN i ELSE ((i - 1) % IdPeriod) + 1
IdListsOfLen(lens) ==
    {[i \in 1..n |-> HotelIdAt(p, i)] : n \in lens, p \in {"distinct", "repeating"}}
\* the lengths at which the number of chunks changes
Lens == {0, 1, ChunkSize, ChunkSize + 1, 2 * ChunkSize, MaxLen}
IdLists == IdListsOfLen(Lens)

\* ------------------------------------------------------- pure functions
Min(a, b) == IF a < b THEN a ELSE b
Max(a, b) == IF a > b THEN a ELSE b

RECURSIVE Pow(_, _)
Pow(b, e) == IF e = 0 THEN 1 ELSE b * Pow(b, e - 1)

\* seq[i : j] with 0-based, end-exclusive bounds clipped to len(seq)
Slice(seq, i, j) == SubSeq(seq, i + 1, Min(j, Len(seq)))

\* _chunks: for i in range(0, len(seq), size): yield seq[i : i + size]
RECURSIVE ChunksFrom(_, _, _)
ChunksFrom(seq, size, i) ==
    IF i >= Len(seq) THEN <<>>
    ELSE <<Slice(seq, i, i + size)>> \o ChunksFrom(seq, size, i + size)

\* seq[i : i + size - 1] in place of seq[i : i + size]
RECURSIVE ChunksFromShort(_, _, _)
ChunksFromShort(seq, size, i) ==
    IF i >= Len(seq) THEN <<>>
    ELSE <<Slice(seq, i, i + size - 1)>> \o ChunksFromShort(seq, size, i + size)

_chunks_short(seq, size) == ChunksFromShort(seq, size, 0)

\* seq[i : i + size + 1] in place of seq[i : i + size]
RECURSIVE ChunksFromOverlap(_, _, _)
ChunksFromOverlap(seq, size, i) ==
    IF i >= Len(seq) THEN <<>>
    ELSE <<Slice(seq, i, i + size + 1)>> \o ChunksFromOverlap(seq, size, i + size)

_chunks_overlap(seq, size) == ChunksFromOverlap(seq, size, 0)

_chunks(seq, size) == ChunksFrom(seq, size, 0)

\* ",".join(chunk): the ids separated by commas (the comma is symbol 0,
\* an id is a symbol >= 1)
Comma == 0
RECURSIVE Join(_)
Join(chunk) ==
    IF Len(chunk) = 0 THEN <<>>
    ELSE IF Len(chunk) = 1 THEN <<chunk[1]>>
    ELSE <<chunk[1], Comma>> \o Join(Tail(chunk))

\* str.isdigit(): non-empty and every character a digit
IsDigitChar(c) == c \in {"0", "5"}
IsDigit(s) == Len(s) > 0 /\ \A k \in 1..Len(s) : IsDigitChar(s[k])

DigitVal(c) == IF c = "5" THEN 5 ELSE 0

\* int(s) for a string of digits
RECURSIVE PyInt(_)
PyInt(s) ==
    IF Len(s) = 0 THEN 0
    ELSE 10 * PyInt(SubSeq(s, 1, Len(s) - 1)) + DigitVal(s[Len(s)])

\* the exponential schedule of _sleep_backoff used for a 429, header ignored
RateLimitDelay_noHeader(retry_after, attempt) == Pow(RETRY_BACKOFF, attempt - 1)

\* _handle_rate_limit, lines 127-131: the delay slept on a 429
RateLimitDelay(retry_after, attempt) ==
    IF retry_after.present /\ Len(retry_after.value) > 0 /\ IsDigit(retry_after.value)
    THEN PyInt(retry_after.value)
    ELSE Max(1, Pow(RETRY_BACKOFF, attempt))

\* "attempt > MAX_RETRIES" in place of "attempt >= MAX_RETRIES"
RateLimitRaises_late(attempt) == attempt > MAX_RETRIES

\* _handle_rate_limit, line 134: raise after the sleep
RateLimitRaises(attempt) == attempt >= MAX_RETRIES

\* RETRY_BACKOFF ** attempt in place of RETRY_BACKOFF ** (attempt - 1)
BackoffDelay_offByOne(attempt) == Pow(RETRY_BACKOFF, attempt)

\* _sleep_backoff: RETRY_BACKOFF ** (attempt - 1)
BackoffDelay(attempt) == Pow(RETRY_BACKOFF, attempt - 1)

Is2xx(status) == 200 <= status /\ status < 300
Is5xx(status) == 500 <= status /\ status < 600

\* "attempt < MAX_RETRIES" dropped from the test
RefreshOn401_always(status, attempt) == status = 401

\* _get, line 107
RefreshOn401(status, attempt) == status = 401 /\ attempt < MAX_RETRIES
\* "400 <= status" in place of "500 <= status"
RetryOn5xx_from400(status, attempt) ==
    400 <= status /\ status < 600 /\ attempt < MAX_RETRIES

\* a 5xx is never retried
RetryOn5xx_never(status, attempt) == FALSE

\* _get, line 114 and _post_form, line 93
RetryOn5xx(status, attempt) == Is5xx(status) /\ attempt < MAX_RETRIES

\* the cached token is never reused
UseCached_never(token, force) == FALSE

\* "not force" dropped from the test
UseCached_ignoreForce(token, force) == token # None /\ token # ""

\* get_access_token, line 143: the cached token is returned as is
UseCached(token, force) == token # None /\ token # "" /\ ~force


Truthy(token) == token # None /\ token # ""

\* ------------------------------------------------------------- responses
NoBody == [for |-> <<>>, data |-> "none"]
NoResp == [status |-> 0, retry_after |-> NoHeader, body |-> NoBody]
NoAuthResp == [status |-> 0, retry_after |-> NoHeader, access_token |-> None]

\* what the hotel-offers endpoint may answer to a GET with these hotelIds;
\* body.for records the request the body answers
GetResponses(hotelIds) ==
    {[status |-> s, retry_after |-> NoHeader, body |-> NoBody] :
        s \in {x \in Statuses : ~Is2xx(x) /\ x # 429}}
    \cup {[status |-> 429, retry_after |-> h, body |-> NoBody] : h \in RetryAfterValues}
    \cup {[status |-> s, retry_after |-> NoHeader, body |-> [for |-> hotelIds, data |-> d]] :
        s \in {x \in Statuses : Is2xx(x)}, d \in Payloads}

\* what the authorization endpoint may answer to the token-exchange POST
PostResponses ==
    {[status |-> s, retry_after |-> NoHeader, access_token |-> None] :
        s \in {x \in Statuses : ~Is2xx(x) /\ x # 429}}
    \cup {[status |-> 429, retry_after |-> h, access_token |-> None] : h \in RetryAfterValues}
    \cup {[status |-> s, retry_after |-> NoHeader, access_token |-> t] :
        s \in {x \in Statuses : Is2xx(x)}, t \in TokenFields}

\* ------------------------------------------------------------------ state
VARIABLES
    access_token,   \* self._access_token
    lastIssued,     \* token stored by the most recent successful exchange
    op,             \* the public method being executed
    pc,             \* position of the thread of control
    outcome,        \* "none", "return" or the exception class raised
    batches_out,    \* the "batches" list returned by get_hotel_offers
    token_out,      \* the token returned by get_access_token
    lastGetFor,     \* hotelIds of the latest session.get of the current call
    posted,         \* some session.post was invoked during the current call
    lazyOK,         \* successful unforced token exchanges of the current call
    saw401,         \* some GET of the current call was answered 401
    hotel_ids,      \* get_hotel_offers: list(hotel_ids)
    k,              \* get_hotel_offers: index of the chunk being fetched
    all_batches,    \* get_hotel_offers: all_batches
    attempt,        \* _get: loop variable
    resp,           \* _get: resp
    ret,            \* _get: the value returned (resp.json())
    statuses,       \* status codes received by the current _get, in order
    getSleeps,      \* time.sleep calls made by the current _get, in order
    forced,         \* get_access_token(force=True) calls of the current _get
    sentToken,      \* bearer token carried by the latest GET attempt
    tokCaller,      \* who called get_access_token: "api", "headers", "refresh"
    force,          \* get_access_token: force
    pAttempt,       \* _post_form: loop variable
    presp,          \* _post_form: resp
    pStatuses,      \* status codes received by the current _post_form
    postSleeps,     \* time.sleep calls made by the current _post_form
    raw,            \* flatten_offers: the argument
    rows,           \* flatten_offers: the list returned
    flat_pc         \* flatten_offers: "idle", "ready" (called) or "done"

clientVars == <<access_token, lastIssued>>
callVars == <<op, outcome, batches_out, token_out>>
netVars == <<lastGetFor, posted, lazyOK, saw401>>
fetchVars == <<hotel_ids, k, all_batches>>
getVars == <<attempt, resp, ret, statuses, getSleeps, forced, sentToken>>
postVars == <<tokCaller, force, pAttempt, presp, pStatuses, postSleeps>>
flatVars == <<raw, rows, flat_pc>>
vars == <<clientVars, callVars, netVars, fetchVars, getVars, postVars, pc, flatVars>>

\* the chunk the loop of get_hotel_offers is working on
Chunks == _chunks(hotel_ids, ChunkSize)
chunk == Chunks[k]
\* params["hotelIds"]
HotelIdsParam == Join(chunk)

\* __init__: no token cached; no call in progress
ClientInit ==
    /\ access_token = None
    /\ lastIssued = None
    /\ op = "none"
    /\ pc = "idle"
    /\ outcome = "none"
    /\ batches_out = <<>>
    /\ token_out = None
    /\ lastGetFor = <<>>
    /\ posted = FALSE
    /\ lazyOK = 0
    /\ saw401 = FALSE
    /\ hotel_ids = <<>>
    /\ k = 0
    /\ all_batches = <<>>
    /\ attempt = 0
    /\ resp = NoResp
    /\ ret = NoBody
    /\ statuses = <<>>
    /\ getSleeps = <<>>
    /\ forced = 0
    /\ sentToken = None
    /\ tokCaller = "none"
    /\ force = FALSE
    /\ pAttempt = 0
    /\ presp = NoAuthResp
    /\ pStatuses = <<>>
    /\ postSleeps = <<>>

\* the client alone: flatten_offers is not called
Init ==
    /\ ClientInit
    /\ raw = [batches |-> <<>>]
    /\ rows = <<>>
    /\ flat_pc = "idle"

\* ---------------------------------------------------------- frame helpers
\* a fresh _get frame
EnterGet ==
    /\ attempt' = 1
    /\ resp' = NoResp
    /\ ret' = NoBody
    /\ statuses' = <<>>
    /\ getSleeps' = <<>>
    /\ forced' = 0
    /\ sentToken' = None

NoGetFrame ==
    /\ attempt' = 0
    /\ resp' = NoResp
    /\ ret' = NoBody
    /\ statuses' = <<>>
    /\ getSleeps' = <<>>
    /\ forced' = 0
    /\ sentToken' = None

\* a fresh get_access_token/_post_form frame
EnterPost(caller, f) ==
    /\ tokCaller' = caller
    /\ force' = f
    /\ pAttempt' = 1
    /\ presp' = NoAuthResp
    /\ pStatuses' = <<>>
    /\ postSleeps' = <<>>

NoPostFrame ==
    /\ tokCaller' = "none"
    /\ force' = FALSE
    /\ pAttempt' = 0
    /\ presp' = NoAuthResp
    /\ pStatuses' = <<>>
    /\ postSleeps' = <<>>

\* an exception of the token exchange is caught inside _get, which goes on
\* with the request
Raise_resumeGet(err) ==
    IF pc = "post_resp" /\ tokCaller # "api"
    THEN /\ pc' = "get_send"
         /\ UNCHANGED callVars
    ELSE /\ pc' = "done"
         /\ outcome' = err
         /\ UNCHANGED <<op, batches_out, token_out>>

\* the exception is swallowed and the batches fetched so far are returned
Raise_partial(err) ==
    /\ pc' = "done"
    /\ outcome' = "return"
    /\ batches_out' = all_batches
    /\ UNCHANGED <<op, token_out>>

\* an exception leaves every frame: the call ends with it
Raise(err) ==
    /\ pc' = "done"
    /\ outcome' = err
    /\ UNCHANGED <<op, batches_out, token_out>>

\* the same attempt is repeated: the loop variable does not advance
GetContinue_sameAttempt ==
    /\ pc' = "get_send"
    /\ UNCHANGED <<callVars, attempt>>

\* the next iteration of "for attempt in range(1, MAX_RETRIES + 1)" in _get;
\* when the range is used up the loop falls through to line 120
GetContinue ==
    IF attempt < MAX_RETRIES
    THEN /\ attempt' = attempt + 1
         /\ pc' = "get_send"
         /\ UNCHANGED callVars
    ELSE /\ Raise("RuntimeError")
         /\ UNCHANGED attempt

\* the same for _post_form, falling through to line 99
PostContinue ==
    IF pAttempt < MAX_RETRIES
    THEN /\ pAttempt' = pAttempt + 1
         /\ pc' = "post_send"
         /\ UNCHANGED callVars
    ELSE /\ Raise("AmadeusAuthError")
         /\ UNCHANGED pAttempt

\* ---------------------------------------------------------------- actions
Idle == pc \in {"idle", "done"}

\* get_hotel_offers obtaining the token before it looks at the ids
CallGetHotelOffers_eager(ids) ==
    /\ UNCHANGED flatVars
    /\ Idle
    /\ op' = "get_hotel_offers"
    /\ hotel_ids' = ids
    /\ all_batches' = <<>>
    /\ batches_out' = <<>>
    /\ token_out' = None
    /\ lastGetFor' = <<>>
    /\ posted' = FALSE
    /\ lazyOK' = 0
    /\ saw401' = FALSE
    /\ outcome' = "none"
    /\ k' = 1
    /\ EnterGet
    /\ IF Truthy(access_token)
       THEN /\ pc' = "get_send"
            /\ NoPostFrame
       ELSE /\ pc' = "post_send"
            /\ EnterPost("headers", FALSE)
    /\ UNCHANGED clientVars

\* client.get_hotel_offers(ids, ...), up to the first _get
CallGetHotelOffers(ids) ==
    /\ UNCHANGED flatVars
    /\ Idle
    /\ op' = "get_hotel_offers"
    /\ hotel_ids' = ids
    /\ all_batches' = <<>>
    /\ batches_out' = <<>>
    /\ token_out' = None
    /\ lastGetFor' = <<>>
    /\ posted' = FALSE
    /\ lazyOK' = 0
    /\ saw401' = FALSE
    /\ NoPostFrame
    /\ IF ids = <<>> \/ _chunks(ids, ChunkSize) = <<>>
       THEN /\ pc' = "done"
            /\ outcome' = "return"
            /\ k' = 0
            /\ NoGetFrame
       ELSE /\ pc' = "get_send"
            /\ outcome' = "none"
            /\ k' = 1
            /\ EnterGet
    /\ UNCHANGED clientVars

\* client.get_access_token(force), up to the first POST
CallGetAccessToken(f) ==
    /\ UNCHANGED flatVars
    /\ Idle
    /\ op' = "get_access_token"
    /\ hotel_ids' = <<>>
    /\ k' = 0
    /\ all_batches' = <<>>
    /\ batches_out' = <<>>
    /\ lastGetFor' = <<>>
    /\ posted' = FALSE
    /\ lazyOK' = 0
    /\ saw401' = FALSE
    /\ NoGetFrame
    /\ IF UseCached(access_token, f)
       THEN /\ pc' = "done"
            /\ outcome' = "return"
            /\ token_out' = access_token
            /\ NoPostFrame
       ELSE /\ pc' = "post_send"
            /\ outcome' = "none"
            /\ token_out' = None
            /\ EnterPost("api", f)
    /\ UNCHANGED clientVars

\* _headers, lines 81-82: no token cached, so get_access_token() is called
GetHeadersLazy ==
    /\ UNCHANGED flatVars
    /\ pc = "get_send"
    /\ ~Truthy(access_token)
    /\ IF UseCached(access_token, FALSE)
       THEN /\ pc' = "get_send"
            /\ UNCHANGED postVars
       ELSE /\ pc' = "post_send"
            /\ EnterPost("headers", FALSE)
    /\ UNCHANGED <<clientVars, callVars, netVars, fetchVars, getVars>>

\* the Authorization header is built once, before the first attempt
GetSend_staleHeaders ==
    /\ UNCHANGED flatVars
    /\ pc = "get_send"
    /\ Truthy(access_token)
    /\ \E r \in GetResponses(HotelIdsParam) : resp' = r
    /\ statuses' = Append(statuses, resp'.status)
    /\ sentToken' = IF attempt = 1 THEN access_token ELSE sentToken
    /\ lastGetFor' = HotelIdsParam
    /\ pc' = "get_resp"
    /\ saw401' = (saw401 \/ resp'.status = 401)
    /\ UNCHANGED <<clientVars, callVars, posted, lazyOK, fetchVars,
                   attempt, ret, getSleeps, forced, postVars>>

\* _get, line 103: session.get with the cached token; the server answers
GetSend ==
    /\ UNCHANGED flatVars
    /\ pc = "get_send"
    /\ Truthy(access_token)
    /\ \E r \in GetResponses(HotelIdsParam) : resp' = r
    /\ statuses' = Append(statuses, resp'.status)
    /\ sentToken' = access_token
    /\ lastGetFor' = HotelIdsParam
    /\ pc' = "get_resp"
    /\ saw401' = (saw401 \/ resp'.status = 401)
    /\ UNCHANGED <<clientVars, callVars, posted, lazyOK, fetchVars,
                   attempt, ret, getSleeps, forced, postVars>>

\* _get, lines 104-119: what the loop does with the response
GetHandle ==
    /\ UNCHANGED flatVars
    /\ pc = "get_resp"
    /\ IF resp.status = 429
       THEN \* _handle_rate_limit: sleep, then raise or continue
            /\ getSleeps' = Append(getSleeps,
                   [at |-> attempt, s |-> RateLimitDelay(resp.retry_after, attempt)])
            /\ IF RateLimitRaises(attempt)
               THEN Raise("AmadeusRateLimitError") /\ UNCHANGED attempt
               ELSE GetContinue
            /\ UNCHANGED <<ret, forced, postVars>>
       ELSE IF RefreshOn401(resp.status, attempt)
       THEN \* get_access_token(force=True)
            /\ forced' = forced + 1
            /\ IF UseCached(access_token, TRUE)
               THEN /\ GetContinue
                    /\ UNCHANGED postVars
               ELSE /\ pc' = "post_send"
                    /\ EnterPost("refresh", TRUE)
                    /\ UNCHANGED <<callVars, attempt>>
            /\ UNCHANGED <<ret, getSleeps>>
       ELSE IF Is2xx(resp.status)
       THEN /\ ret' = resp.body
            /\ pc' = "get_ret"
            /\ UNCHANGED <<callVars, attempt, getSleeps, forced, postVars>>
       ELSE IF RetryOn5xx(resp.status, attempt)
       THEN /\ getSleeps' = Append(getSleeps, [at |-> attempt, s |-> BackoffDelay(attempt)])
            /\ GetContinue
            /\ UNCHANGED <<ret, forced, postVars>>
       ELSE /\ Raise("RuntimeError")
            /\ UNCHANGED <<attempt, ret, getSleeps, forced, postVars>>
    /\ UNCHANGED <<clientVars, netVars, fetchVars, resp, statuses, sentToken>>

\* the batch is inserted at the front of all_batches
GetReturn_prepend ==
    /\ UNCHANGED flatVars
    /\ pc = "get_ret"
    /\ all_batches' = <<[request_hotel_ids |-> chunk, response |-> ret]>> \o all_batches
    /\ IF k < Len(Chunks)
       THEN /\ k' = k + 1
            /\ EnterGet
            /\ pc' = "get_send"
            /\ UNCHANGED callVars
       ELSE /\ pc' = "done"
            /\ outcome' = "return"
            /\ batches_out' = all_batches'
            /\ UNCHANGED <<op, token_out, k, getVars>>
    /\ UNCHANGED <<clientVars, netVars, hotel_ids, postVars>>

\* get_hotel_offers, lines 223-228: _get returned; append the batch, then the
\* next chunk or the return
GetReturn ==
    /\ UNCHANGED flatVars
    /\ pc = "get_ret"
    /\ all_batches' = Append(all_batches, [request_hotel_ids |-> chunk, response |-> ret])
    /\ IF k < Len(Chunks)
       THEN /\ k' = k + 1
            /\ EnterGet
            /\ pc' = "get_send"
            /\ UNCHANGED callVars
       ELSE /\ pc' = "done"
            /\ outcome' = "return"
            /\ batches_out' = all_batches'
            /\ UNCHANGED <<op, token_out, k, getVars>>
    /\ UNCHANGED <<clientVars, netVars, hotel_ids, postVars>>

\* _post_form, line 87: session.post; the authorization server answers
PostSend ==
    /\ UNCHANGED flatVars
    /\ pc = "post_send"
    /\ \E r \in PostResponses : presp' = r
    /\ pStatuses' = Append(pStatuses, presp'.status)
    /\ posted' = TRUE
    /\ pc' = "post_resp"
    /\ UNCHANGED <<clientVars, callVars, lastGetFor, lazyOK, saw401, fetchVars, getVars,
                   tokCaller, force, pAttempt, postSleeps>>

\* a malformed success response also clears the cache
StoreToken_clearOnFailure ==
    LET token == presp.access_token IN
    IF ~Truthy(token)
    THEN /\ Raise("AmadeusAuthError")
         /\ access_token' = None
         /\ UNCHANGED <<lastIssued, lazyOK, saw401, getVars, tokCaller, force,
                        pAttempt, presp, pStatuses, postSleeps>>
    ELSE /\ access_token' = token
         /\ lastIssued' = token
         /\ lazyOK' = IF force THEN lazyOK ELSE lazyOK + 1
         /\ UNCHANGED saw401
         /\ IF tokCaller = "api"
            THEN /\ pc' = "done"
                 /\ outcome' = "return"
                 /\ token_out' = token
                 /\ UNCHANGED <<op, batches_out, getVars, postVars>>
            ELSE IF tokCaller = "headers"
            THEN /\ pc' = "get_send"
                 /\ NoPostFrame
                 /\ UNCHANGED <<callVars, getVars>>
            ELSE /\ GetContinue
                 /\ NoPostFrame
                 /\ UNCHANGED <<resp, ret, statuses, getSleeps, forced, sentToken>>

\* the token field is stored without the "if not token" test
StoreToken_unchecked ==
    LET token == presp.access_token IN
    /\ access_token' = token
    /\ lastIssued' = token
    /\ lazyOK' = IF force THEN lazyOK ELSE lazyOK + 1
    /\ UNCHANGED saw401
    /\ IF tokCaller = "api"
       THEN /\ pc' = "done"
            /\ outcome' = "return"
            /\ token_out' = token
            /\ UNCHANGED <<op, batches_out, getVars, postVars>>
       ELSE IF tokCaller = "headers"
       THEN /\ pc' = "get_send"
            /\ NoPostFrame
            /\ UNCHANGED <<callVars, getVars>>
       ELSE /\ GetContinue
            /\ NoPostFrame
            /\ UNCHANGED <<resp, ret, statuses, getSleeps, forced, sentToken>>

\* get_access_token, lines 152-156, after _post_form returned the body
StoreToken ==
    LET token == presp.access_token IN
    IF ~Truthy(token)
    THEN /\ Raise("AmadeusAuthError")
         /\ UNCHANGED <<clientVars, lazyOK, saw401, getVars, tokCaller, force, pAttempt,
                        presp, pStatuses, postSleeps>>
    ELSE /\ access_token' = token
         /\ lastIssued' = token
         /\ lazyOK' = IF force THEN lazyOK ELSE lazyOK + 1
         /\ UNCHANGED saw401
         /\ IF tokCaller = "api"
            THEN /\ pc' = "done"
                 /\ outcome' = "return"
                 /\ token_out' = token
                 /\ UNCHANGED <<op, batches_out, getVars, postVars>>
            ELSE IF tokCaller = "headers"
            THEN /\ pc' = "get_send"
                 /\ NoPostFrame
                 /\ UNCHANGED <<callVars, getVars>>
            ELSE /\ GetContinue
                 /\ NoPostFrame
                 /\ UNCHANGED <<resp, ret, statuses, getSleeps, forced, sentToken>>

\* _post_form, lines 88-99: what the loop does with the response
PostHandle ==
    /\ UNCHANGED flatVars
    /\ pc = "post_resp"
    /\ IF presp.status = 429
       THEN /\ postSleeps' = Append(postSleeps,
                   [at |-> pAttempt, s |-> RateLimitDelay(presp.retry_after, pAttempt)])
            /\ IF RateLimitRaises(pAttempt)
               THEN Raise("AmadeusRateLimitError") /\ UNCHANGED pAttempt
               ELSE PostContinue
            /\ UNCHANGED <<clientVars, lazyOK, saw401, getVars, tokCaller, force, presp, pStatuses>>
       ELSE IF Is2xx(presp.status)
       THEN StoreToken
       ELSE IF RetryOn5xx(presp.status, pAttempt)
       THEN /\ postSleeps' = Append(postSleeps, [at |-> pAttempt, s |-> BackoffDelay(pAttempt)])
            /\ PostContinue
            /\ UNCHANGED <<clientVars, lazyOK, saw401, getVars, tokCaller, force, presp, pStatuses>>
       ELSE /\ Raise("AmadeusAuthError")
            /\ UNCHANGED <<clientVars, lazyOK, saw401, getVars, postVars>>
    /\ UNCHANGED <<lastGetFor, posted, fetchVars>>

Next ==
    \/ \E ids \in IdLists : CallGetHotelOffers(ids)
    \/ \E f \in BOOLEAN : CallGetAccessToken(f)
    \/ GetHeadersLazy
    \/ GetSend
    \/ GetHandle
    \/ GetReturn
    \/ PostSend
    \/ PostHandle

Spec == Init /\ [][Next]_vars

TypeOK ==
    /\ access_token \in {None} \cup Tokens
    /\ pc \in {"idle", "get_send", "get_resp", "get_ret", "post_send", "post_resp", "done"}
    /\ outcome \in {"none", "return", "RuntimeError", "AmadeusAuthError", "AmadeusRateLimitError"}
    /\ attempt \in 0..MAX_RETRIES
    /\ pAttempt \in 0..MAX_RETRIES

\* ------------------------------------------------- hotels/flatten.py
\* bounds of the responses handed to flatten_offers
MaxBatches == 2
MaxEntries == 2
MaxOffers == 3

\* an offer's "policies": the key may be missing, the dict may lack
\* "refundable", and "refundable" may lack "cancellationRefund" (None)
NoRefundable == [present |-> FALSE, cancellationRefund |-> None]
EmptyDict == [present |-> TRUE, refundable |-> NoRefundable]
PolicyCases ==
    << [present |-> FALSE, refundable |-> NoRefundable],
       EmptyDict,
       [present |-> TRUE,
        refundable |-> [present |-> TRUE, cancellationRefund |-> "NON_REFUNDABLE"]],
       [present |-> TRUE,
        refundable |-> [present |-> TRUE, cancellationRefund |-> "REFUNDABLE_UP_TO_DEADLINE"]],
       [present |-> TRUE,
        refundable |-> [present |-> TRUE, cancellationRefund |-> None]] >>

\* a response of nb batches, ne hotel entries per batch and no offers per
\* entry; the offers run through the policy cases from case `first` on
OfferAt(first, n) == [policies |-> PolicyCases[((first + n - 2) % Len(PolicyCases)) + 1]]
EntryAt(first, no, e) ==
    [hotel |-> [hotelId |-> e],
     offers |-> [o \in 1..no |-> OfferAt(first, (e - 1) * no + o)]]
BatchAt(first, ne, no, b) ==
    [response |-> [data |-> [e \in 1..ne |-> EntryAt(first, no, (b - 1) * ne + e)]]]
RawInputs ==
    {[batches |-> [b \in 1..nb |-> BatchAt(first, ne, no, b)]] :
        nb \in 0..MaxBatches, ne \in 0..MaxEntries, no \in 0..MaxOffers,
        first \in 1..Len(PolicyCases)}

\* refundable is False for every offer whose policies lack "refundable"
RefundableFlag_falseWhenAbsent(offer) ==
    LET policies == IF offer.policies.present THEN offer.policies ELSE EmptyDict
    IN  IF policies.refundable.present
        THEN IF policies.refundable.cancellationRefund # "NON_REFUNDABLE"
             THEN "True" ELSE "False"
        ELSE "False"

\* flatten_offers, lines 38-43: refundable_flag, one of None, True, False
RefundableFlag(offer) ==
    LET policies == IF offer.policies.present THEN offer.policies ELSE EmptyDict
    IN  IF policies.refundable.present
        THEN IF policies.refundable.cancellationRefund # "NON_REFUNDABLE"
             THEN "True" ELSE "False"
        ELSE None

\* flatten_offers, lines 45-54: the row appended for an offer (the date and
\* price fields are left out)
Row(entry, offer) ==
    [hotelId |-> entry.hotel.hotelId, refundable |-> RefundableFlag(offer)]

\* flatten_offers, line 21: for offer in entry.get("offers", [])
RowsOfEntry(entry) == [o \in 1..Len(entry.offers) |-> Row(entry, entry.offers[o])]

\* flatten_offers, line 17: for entry in data
RECURSIVE RowsOfEntries(_)
RowsOfEntries(data) ==
    IF Len(data) = 0 THEN <<>>
    ELSE RowsOfEntry(Head(data)) \o RowsOfEntries(Tail(data))

\* flatten_offers, line 15: for batch in raw.get("batches", [])
RECURSIVE RowsOfBatches(_)
RowsOfBatches(batches) ==
    IF Len(batches) = 0 THEN <<>>
    ELSE RowsOfEntries(Head(batches).response.data) \o RowsOfBatches(Tail(batches))

flatten_offers(r) == RowsOfBatches(r.batches)

\* a caller hands a response to flatten_offers
InitFlatten ==
    /\ ClientInit
    /\ raw \in RawInputs
    /\ rows = <<>>
    /\ flat_pc = "ready"

\* flatten_offers(raw) runs to its return
Flatten ==
    /\ flat_pc = "ready"
    /\ rows' = flatten_offers(raw)
    /\ flat_pc' = "done"
    /\ UNCHANGED <<raw, clientVars, callVars, netVars, fetchVars, getVars, postVars, pc>>

NextFlatten == Flatten

SpecFlatten == InitFlatten /\ [][NextFlatten]_vars

\* ------------------------------------------------------------ properties
Last(seq) == seq[Len(seq)]

RECURSIVE Concat(_)
Concat(seqs) == IF Len(seqs) = 0 THEN <<>> ELSE Head(seqs) \o Concat(Tail(seqs))

CeilDiv(n, d) == (n + d - 1) \div d

InOffers == op = "get_hotel_offers"
Returned == pc = "done" /\ outcome = "return"
Raised == pc = "done" /\ outcome \in {"RuntimeError", "AmadeusAuthError", "AmadeusRateLimitError"}

\* C1: for an id list of length L >= 1, get_hotel_offers works through
\* exactly ceil(L/20) chunks, each with 1 to 20 ids, whose concatenation in
\* order is the id list; the batches it returns carry exactly these chunks.
C1_ChunksPartitionIds ==
    (InOffers /\ Len(hotel_ids) >= 1) =>
        /\ Len(Chunks) = CeilDiv(Len(hotel_ids), 20)
        /\ \A j \in 1..Len(Chunks) : Len(Chunks[j]) >= 1 /\ Len(Chunks[j]) <= 20
        /\ Concat(Chunks) = hotel_ids
        /\ k \in 1..CeilDiv(Len(hotel_ids), 20)
        /\ Returned =>
              /\ Len(batches_out) = CeilDiv(Len(hotel_ids), 20)
              /\ Concat([j \in 1..Len(batches_out) |-> batches_out[j].request_hotel_ids])
                    = hotel_ids

C1_Witness ==
    /\ InOffers
    /\ Returned
    /\ Len(hotel_ids) > 2 * ChunkSize
    /\ Len(batches_out) = 3
    /\ Len(batches_out[3].request_hotel_ids) < ChunkSize

\* C2: get_hotel_offers with an empty id list returns an empty batch list
\* at once and invokes neither session.get nor session.post, also when no
\* token is cached.
C2_EmptyIdsNoNetwork ==
    (InOffers /\ hotel_ids = <<>>) =>
        /\ Returned
        /\ batches_out = <<>>
        /\ lastGetFor = <<>>
        /\ statuses = <<>>
        /\ ~posted
        /\ pStatuses = <<>>

C2_Witness ==
    /\ InOffers
    /\ hotel_ids = <<>>
    /\ Returned
    /\ access_token = None

\* C3: when the first response of a GET is 401 and the second is 2xx, exactly
\* one forced refresh took place before the second attempt was sent, the
\* second attempt carries the refreshed token, and _get returns the body of
\* the second response.
C3_Refresh401Then2xx ==
    (Len(statuses) >= 2 /\ statuses[1] = 401 /\ Is2xx(statuses[2])) =>
        /\ Len(statuses) = 2
        /\ forced = 1
        /\ posted
        /\ sentToken = lastIssued
        /\ outcome \in {"none", "return"}
        /\ pc \in {"get_resp", "get_ret", "done"}
        /\ pc # "get_resp" => ret = resp.body /\ ret.for = HotelIdsParam

C3_Witness ==
    /\ pc = "get_ret"
    /\ statuses = <<401, 200>>
    /\ forced = 1
    /\ ret = resp.body

\* C4: during one GET request the forced token refresh triggered by a 401
\* is attempted at most once, whatever the responses are.
C4_AtMostOneForcedRefresh == forced <= 1

\* C5: a GET answered only with 5xx raises the generic RuntimeError after
\* exactly 3 session.get invocations, having slept 1 second after attempt 1,
\* 2 seconds after attempt 2 and not at all after attempt 3.
All5xx == Len(statuses) >= 1 /\ \A j \in 1..Len(statuses) : Is5xx(statuses[j])

C5_BackoffSchedule == <<[at |-> 1, s |-> 1], [at |-> 2, s |-> 2]>>

C5_All5xxFailsAfterThree ==
    All5xx =>
        /\ Len(statuses) <= 3
        /\ pc \in {"get_resp", "get_send", "done"}
        /\ pc = "get_resp" => getSleeps = SubSeq(C5_BackoffSchedule, 1, Len(statuses) - 1)
        /\ pc = "get_send" => /\ Len(statuses) < 3
                              /\ attempt = Len(statuses) + 1
                              /\ getSleeps = SubSeq(C5_BackoffSchedule, 1, Len(statuses))
        /\ pc = "done" => /\ Len(statuses) = 3
                          /\ outcome = "RuntimeError"
                          /\ getSleeps = C5_BackoffSchedule

C5_Witness ==
    /\ pc = "done"
    /\ statuses = <<500, 500, 500>>
    /\ outcome = "RuntimeError"
    /\ Len(getSleeps) = 2

\* C6: on every 429, on the GET and on the POST path, the client sleeps the
\* Retry-After value when the header is a string of digits and
\* max(1, 2^attempt) = 2, 4, 8 for attempts 1, 2, 3 otherwise; the sleep is
\* done before the next attempt is sent.
C6_Expected(h, a) ==
    IF h.present /\ IsDigit(h.value)
    THEN PyInt(h.value)
    ELSE CASE a = 1 -> 2 [] a = 2 -> 4 [] OTHER -> 8

C6_SleptFor(respStatus, h, pcResp, sts, sleeps) ==
    /\ (respStatus = 429 /\ pc # pcResp) =>
          /\ Len(sleeps) >= 1
          /\ Last(sleeps) = [at |-> Len(sts), s |-> C6_Expected(h, Len(sts))]
          /\ h = [present |-> TRUE, value |-> <<"5">>] => Last(sleeps).s = 5
    /\ \A j \in 1..(Len(sts) - 1) :
          sts[j] = 429 => \E n \in 1..Len(sleeps) : sleeps[n].at = j

C6_RateLimitDelay ==
    /\ C6_SleptFor(resp.status, resp.retry_after, "get_resp", statuses, getSleeps)
    /\ C6_SleptFor(presp.status, presp.retry_after, "post_resp", pStatuses, postSleeps)

C6_Witness ==
    /\ pc = "get_resp"
    /\ Len(statuses) = 3
    /\ statuses[1] = 429 /\ statuses[2] = 429
    /\ getSleeps = <<[at |-> 1, s |-> 5], [at |-> 2, s |-> 4]>>

\* C7: a 429 at attempt 3 ends the request with AmadeusRateLimitError after
\* the rate-limit sleep; a 429 at attempt 1 or 2 is followed by the next
\* attempt of the same request; a GET answered only with 429 invokes
\* session.get exactly 3 times and raises AmadeusRateLimitError.
C7_After429(respStatus, pcResp, pcSend, sts, sleeps, att) ==
    /\ Len(sts) <= 3
    /\ (respStatus = 429 /\ pc # pcResp) =>
          /\ Last(sleeps).at = Len(sts)
          /\ Len(sts) = 3 => pc = "done" /\ outcome = "AmadeusRateLimitError"
          /\ Len(sts) < 3 => pc = pcSend /\ att = Len(sts) + 1 /\ outcome = "none"

All429 == Len(statuses) >= 1 /\ \A j \in 1..Len(statuses) : statuses[j] = 429

C7_RateLimitExhaustion ==
    /\ C7_After429(resp.status, "get_resp", "get_send", statuses, getSleeps, attempt)
    /\ C7_After429(presp.status, "post_resp", "post_send", pStatuses, postSleeps, pAttempt)
    /\ (All429 /\ pc = "done") =>
          /\ Len(statuses) = 3
          /\ outcome = "AmadeusRateLimitError"
          /\ lastGetFor = HotelIdsParam

C7_Witness ==
    /\ pc = "done"
    /\ statuses = <<429, 429, 429>>
    /\ outcome = "AmadeusRateLimitError"
    /\ Len(getSleeps) = 3

\* C8: the token exchange is retried up to 3 attempts, and whenever it ends
\* after the third attempt without a 2xx response, be the responses 5xx or
\* 429, get_access_token fails with AmadeusAuthError.
ExchangeExhausted ==
    /\ pc = "done"
    /\ tokCaller # "none"
    /\ Len(pStatuses) = MAX_RETRIES
    /\ ~Is2xx(Last(pStatuses))

C8_ExhaustedExchangeIsAuthError ==
    /\ Len(pStatuses) <= 3
    /\ ExchangeExhausted => outcome = "AmadeusAuthError"

\* C8 as amended: the token exchange is retried (429 after the rate-limit
\* sleep, 5xx after the backoff sleep) up to 3 attempts; when the third
\* attempt is answered 429, get_access_token fails with
\* AmadeusRateLimitError, and when it is answered with any other non-2xx
\* status, with AmadeusAuthError.
C8_ExhaustedExchangeError ==
    /\ Len(pStatuses) <= 3
    /\ ExchangeExhausted =>
          outcome = IF Last(pStatuses) = 429 THEN "AmadeusRateLimitError"
                    ELSE "AmadeusAuthError"
    /\ (pc \notin {"post_resp", "idle"} /\ Len(pStatuses) \in 1..2
            /\ (Is5xx(Last(pStatuses)) \/ Last(pStatuses) = 429)) =>
          /\ pc = "post_send"
          /\ pAttempt = Len(pStatuses) + 1
          /\ Len(postSleeps) = Len(pStatuses)
          /\ outcome = "none"

C8_Witness ==
    /\ pc = "done"
    /\ tokCaller = "api"
    /\ pStatuses = <<500, 429, 429>>
    /\ outcome = "AmadeusRateLimitError"
    /\ Len(postSleeps) = 3

\* C9: a get_hotel_offers call over several chunks either returns one batch
\* per chunk, or raises; when the request for chunk k fails, the call ends
\* there: the latest GET sent is one for chunk k, none was sent for a later
\* chunk, and no batch list is returned.
C9_AllOrNothing ==
    (InOffers /\ pc = "done" /\ hotel_ids # <<>>) =>
        \/ /\ outcome = "return"
           /\ Len(batches_out) = Len(Chunks)
           /\ \A j \in 1..Len(Chunks) : batches_out[j].request_hotel_ids = Chunks[j]
        \/ /\ Raised
           /\ batches_out = <<>>
           /\ k = Len(all_batches) + 1
           /\ k <= Len(Chunks)
           /\ lastGetFor \in {Join(Chunks[j]) : j \in 1..k} \cup {<<>>}
           /\ statuses # <<>> => lastGetFor = Join(Chunks[k])

C9_Witness ==
    /\ InOffers
    /\ Raised
    /\ Len(Chunks) = 3
    /\ k = 2
    /\ Len(all_batches) = 1
    /\ lastGetFor = Join(Chunks[2])
    /\ batches_out = <<>>

\* C10: chunks are requested one after the other, in order: whenever a GET
\* for chunk k is in flight or being retried, chunks 1..k-1 have all ended
\* in Success, and the j-th batch pairs the ids of chunk j with the response
\* to the request that carried chunk j's hotelIds.
C10_SequentialInOrder ==
    (InOffers /\ hotel_ids # <<>>) =>
        /\ Len(all_batches) = IF Returned THEN k ELSE k - 1
        /\ \A j \in 1..Len(all_batches) :
              /\ all_batches[j].request_hotel_ids = Chunks[j]
              /\ all_batches[j].response.for = Join(Chunks[j])
        /\ pc = "get_resp" => lastGetFor = Join(Chunks[k])
        /\ pc = "get_ret" => ret.for = Join(Chunks[k])
        /\ Returned => batches_out = all_batches

C10_Witness ==
    /\ InOffers
    /\ pc = "get_resp"
    /\ k = 3
    /\ Len(statuses) = 1
    /\ Len(all_batches) = 2
    /\ all_batches[2].response.for = Join(Chunks[2])
    /\ all_batches[1].response.for # all_batches[2].response.for

\* C11: in the result of get_hotel_offers no id appears in the
\* request_hotel_ids of two different batches, whatever the input id list.
IdsOf(seq) == {seq[n] : n \in 1..Len(seq)}

SharedIds(batches) ==
    {id \in IdsOf(hotel_ids) :
        \E i, j \in 1..Len(batches) :
            /\ i # j
            /\ id \in IdsOf(batches[i].request_hotel_ids)
            /\ id \in IdsOf(batches[j].request_hotel_ids)}

C11_NoIdInTwoBatches ==
    (InOffers /\ Returned) => SharedIds(batches_out) = {}

\* C11 as amended: an id appears in two different batches of the result only
\* when it occurs more than once in the input id list; for an input of
\* pairwise distinct ids no id appears in two batches.
Occurrences(seq, id) == Cardinality({n \in 1..Len(seq) : seq[n] = id})

C11_SharedIdsAreInputDuplicates ==
    (InOffers /\ Returned) =>
        /\ \A id \in SharedIds(batches_out) : Occurrences(hotel_ids, id) >= 2
        /\ Cardinality(IdsOf(hotel_ids)) = Len(hotel_ids) => SharedIds(batches_out) = {}

C11_Witness ==
    /\ InOffers
    /\ Returned
    /\ Len(batches_out) = 2
    /\ Cardinality(IdsOf(hotel_ids)) = Len(hotel_ids)
    /\ Len(hotel_ids) = ChunkSize + 1
    /\ SharedIds(batches_out) = {}

\* C12: a token-exchange POST is made only when no token is cached or the
\* refresh is forced, a forced refresh inside a GET only after a 401 below
\* the last attempt; get_access_token(force=False) with a cached token
\* returns it without any network call; a fetch that sees no 401 performs
\* at most one successful token exchange: it makes no forced refresh, and
\* at most one unforced exchange succeeds in any call.
InExchange == pc \in {"post_send", "post_resp"}

C12_ExchangeOnlyWhenNeeded ==
    /\ InExchange =>
          /\ ~Truthy(access_token) \/ force
          /\ tokCaller = "headers" => ~force /\ ~Truthy(access_token)
          /\ tokCaller = "refresh" =>
                force /\ resp.status = 401 /\ Len(statuses) < MAX_RETRIES
    /\ (op = "get_access_token" /\ pc = "done" /\ ~posted) =>
          /\ outcome = "return"
          /\ Truthy(access_token)
          /\ token_out = access_token
    /\ (InOffers /\ ~saw401) => forced = 0
    /\ lazyOK <= 1

C12_Witness ==
    /\ InOffers
    /\ Returned
    /\ Len(batches_out) = 3
    /\ ~saw401
    /\ posted
    /\ lazyOK = 1
    /\ forced = 0

\* C13: a 2xx answer of the authorization endpoint whose access_token is
\* missing or empty makes get_access_token raise AmadeusAuthError at once:
\* no further POST follows it and the cached token stays as it was.
MalformedSuccess ==
    /\ pc = "post_resp"
    /\ Is2xx(presp.status)
    /\ ~Truthy(presp.access_token)

C13_MalformedSuccessIsFatal ==
    [][MalformedSuccess =>
          /\ pc' = "done"
          /\ outcome' = "AmadeusAuthError"
          /\ access_token' = access_token
          /\ lastIssued' = lastIssued
          /\ pStatuses' = pStatuses
          /\ pAttempt' = pAttempt
          /\ postSleeps' = postSleeps
          /\ posted' = posted]_vars

C13_Witness ==
    /\ pc = "done"
    /\ outcome = "AmadeusAuthError"
    /\ pStatuses = <<200>>
    /\ presp.access_token = ""
    /\ tokCaller = "refresh"
    /\ Truthy(access_token)

\* C14: a GET response that is neither 2xx nor 429, 401 or 5xx ends the
\* request at once with RuntimeError, at any attempt: no sleep, no token
\* refresh and no further session.get or session.post follow it.
OtherStatus(status) ==
    ~Is2xx(status) /\ status # 429 /\ status # 401 /\ ~Is5xx(status)

C14_OtherStatusFailsAtOnce ==
    [][(pc = "get_resp" /\ OtherStatus(resp.status)) =>
          /\ pc' = "done"
          /\ outcome' = "RuntimeError"
          /\ getSleeps' = getSleeps
          /\ forced' = forced
          /\ statuses' = statuses
          /\ attempt' = attempt
          /\ lastGetFor' = lastGetFor
          /\ posted' = posted
          /\ access_token' = access_token
          /\ pStatuses' = pStatuses]_vars

C14_Witness ==
    /\ pc = "done"
    /\ outcome = "RuntimeError"
    /\ statuses = <<500, 404>>
    /\ attempt = 2
    /\ Len(getSleeps) = 1
    /\ forced = 0

\* C16: whatever the responses are, a single GET request ends (Success or
\* Failure) after at most 3 session.get invocations: every step of the
\* request is possible and strictly lowers a natural-number rank, so the
\* request cannot go on forever.
InGetRequest ==
    /\ InOffers
    /\ pc \in {"get_send", "get_resp", "post_send", "post_resp"}

RequestStep == GetHeadersLazy \/ GetSend \/ GetHandle \/ PostSend \/ PostHandle

\* position inside one attempt, counted down: lazy exchange, send, response,
\* forced exchange
AttemptPhase ==
    CASE pc = "get_send" -> IF Truthy(access_token) THEN 11 ELSE 18
      [] pc = "get_resp" -> 10
      [] pc = "post_send" ->
            (IF tokCaller = "headers" THEN 17 ELSE 9) - 2 * (pAttempt - 1)
      [] pc = "post_resp" ->
            (IF tokCaller = "headers" THEN 17 ELSE 9) - 2 * (pAttempt - 1) - 1
      [] OTHER -> 0

GetRank == IF InGetRequest THEN (MAX_RETRIES - attempt) * 20 + AttemptPhase ELSE 0

C16_GetTerminatesWithinThree ==
    /\ [](InGetRequest =>
            /\ GetRank >= 1
            /\ attempt \in 1..MAX_RETRIES
            /\ Len(statuses) <= 3
            /\ ENABLED RequestStep)
    /\ [][InGetRequest => GetRank' < GetRank /\ Len(statuses') <= 3]_vars

C16_Witness ==
    /\ InOffers
    /\ pc = "done"
    /\ statuses = <<429, 401, 500>>
    /\ outcome = "RuntimeError"
    /\ forced = 1

\* C17: every GET attempt carries the token cached when the attempt is
\* sent; after a forced refresh the retry, and every later attempt and
\* chunk, carry the token the refresh stored.
AttemptOutstanding ==
    \/ pc \in {"get_resp", "get_ret"}
    \/ pc = "done" /\ InOffers /\ tokCaller = "none" /\ statuses # <<>>

C17_AttemptCarriesCurrentToken ==
    /\ [](AttemptOutstanding =>
            /\ Truthy(sentToken)
            /\ sentToken = access_token
            /\ sentToken = lastIssued)
    /\ [][Len(statuses') > Len(statuses) => sentToken' = access_token]_vars

C17_Witness ==
    /\ InOffers
    /\ pc = "get_resp"
    /\ k = 2
    /\ statuses = <<401, 401, 200>>
    /\ forced = 2
    /\ sentToken = access_token

\* C18: only a 401 on the GET path below the last attempt is answered with
\* a refresh and a retry: a 401 of the authorization endpoint makes the
\* exchange raise AmadeusAuthError with no further POST, and a 401 on the
\* GET path at attempt 3 raises RuntimeError without a refresh.
C18_RefreshOnlyOnEarlyGet401 ==
    /\ [][(pc = "post_resp" /\ presp.status = 401) =>
            /\ pc' = "done"
            /\ outcome' = "AmadeusAuthError"
            /\ pStatuses' = pStatuses
            /\ postSleeps' = postSleeps
            /\ forced' = forced
            /\ access_token' = access_token]_vars
    /\ [][(pc = "get_resp" /\ resp.status = 401 /\ attempt = MAX_RETRIES) =>
            /\ pc' = "done"
            /\ outcome' = "RuntimeError"
            /\ forced' = forced
            /\ posted' = posted
            /\ statuses' = statuses
            /\ access_token' = access_token]_vars
    /\ [][(pc = "get_resp" /\ resp.status = 401 /\ attempt < MAX_RETRIES) =>
            /\ forced' = forced + 1
            /\ pc' = "post_send"
            /\ tokCaller' = "refresh"
            /\ force']_vars
    /\ [][forced' > forced => pc = "get_resp" /\ resp.status = 401]_vars

C18_Witness ==
    /\ pc = "done"
    /\ outcome = "AmadeusAuthError"
    /\ statuses = <<500, 401>>
    /\ tokCaller = "refresh"
    /\ pStatuses = <<500, 401>>
    /\ Len(postSleeps) = 1

\* C19: the cached token changes only when an exchange succeeds, and then to
\* the token that exchange returned; an exchange that fails leaves it as it
\* was; a cached token is never reset to empty; the cached token is always
\* absent or the token of the most recent successful exchange.
Errors == {"RuntimeError", "AmadeusAuthError", "AmadeusRateLimitError"}

C19_TokenChangesOnlyOnSuccess ==
    /\ [](/\ access_token \in {None} \cup Tokens
          /\ access_token = lastIssued)
    /\ [][access_token' # access_token =>
            /\ pc = "post_resp"
            /\ Is2xx(presp.status)
            /\ Truthy(presp.access_token)
            /\ access_token' = presp.access_token]_vars
    /\ [][(InExchange /\ pc' = "done" /\ outcome' \in Errors) =>
            access_token' = access_token]_vars
    /\ [][Truthy(access_token) => Truthy(access_token')]_vars

C19_Witness ==
    /\ pc = "done"
    /\ outcome = "AmadeusRateLimitError"
    /\ op = "get_access_token"
    /\ force
    /\ Len(pStatuses) = 3
    /\ access_token = "tokB"

\* C20: when a token exchange made inside a GET request fails, lazy or
\* forced, its AmadeusAuthError or AmadeusRateLimitError ends the call at
\* once: the request is resumed only by an exchange that succeeded, and no
\* further session.get is made, also when the GET attempt is below 3.
ExchangeInGet == InExchange /\ tokCaller \in {"headers", "refresh"}

C20_ExchangeFailureEndsGet ==
    /\ [][(ExchangeInGet /\ pc' \notin {"post_send", "post_resp"}) =>
            \/ /\ pc' = "get_send"
               /\ Is2xx(presp.status)
               /\ Truthy(presp.access_token)
               /\ access_token' = presp.access_token
            \/ /\ pc' = "done"
               /\ ~(Is2xx(presp.status) /\ Truthy(presp.access_token))
               /\ outcome' \in {"AmadeusAuthError", "AmadeusRateLimitError"}
               /\ statuses' = statuses
               /\ lastGetFor' = lastGetFor
               /\ attempt' = attempt
               /\ batches_out' = <<>>]_vars
    /\ [][(pc = "done" /\ pc' # "done") => statuses' = <<>> /\ lastGetFor' = <<>>]_vars

C20_Witness ==
    /\ InOffers
    /\ pc = "done"
    /\ tokCaller = "refresh"
    /\ outcome = "AmadeusRateLimitError"
    /\ attempt = 1
    /\ statuses = <<401>>
    /\ k = 1
    /\ Len(Chunks) = 2

\* C15: flatten_offers returns exactly one row per offer, in order, and the
\* row's refundable is None when the offer's policies have no "refundable"
\* key, False when policies.refundable.cancellationRefund is
\* "NON_REFUNDABLE", and True in every other case with the key present.
RECURSIVE OffersOfEntries(_)
OffersOfEntries(data) ==
    IF Len(data) = 0 THEN <<>> ELSE Head(data).offers \o OffersOfEntries(Tail(data))

RECURSIVE OffersOfBatches(_)
OffersOfBatches(batches) ==
    IF Len(batches) = 0 THEN <<>>
    ELSE OffersOfEntries(Head(batches).response.data) \o OffersOfBatches(Tail(batches))

C15_Refundable(offer) ==
    IF ~offer.policies.present \/ ~offer.policies.refundable.present THEN None
    ELSE IF offer.policies.refundable.cancellationRefund = "NON_REFUNDABLE" THEN "False"
    ELSE "True"

C15_OneRowPerOfferThreeValued ==
    flat_pc = "done" =>
        LET offers == OffersOfBatches(raw.batches) IN
        /\ Len(rows) = Len(offers)
        /\ \A n \in 1..Len(rows) :
              /\ rows[n].refundable = C15_Refundable(offers[n])
              /\ rows[n].refundable \in {None, "True", "False"}

C15_Witness ==
    /\ flat_pc = "done"
    /\ Len(raw.batches) = 2
    /\ Len(rows) = 8
    /\ \E n \in 1..Len(rows) : rows[n].refundable = None
    /\ \E n \in 1..Len(rows) : rows[n].refundable = "False"
    /\ \E n \in 1..Len(rows) : rows[n].refundable = "True"

====
